---- MODULE Spec2Model ----
(***************************************************************************)
(* Model of src/langchain-agent/agent_langchain.ts: a Telegram bot whose   *)
(* LangGraph workflow (agent -> tools -> agent) calls tools that schedule  *)
(* background actions (setInterval per chat) and manage Starknet accounts. *)
(*                                                                         *)
(* One logical event loop: every action below is the code that runs        *)
(* between two suspension points (await), so actions interleave exactly    *)
(* where the code awaits.                                                  *)
(*                                                                         *)
(* The checkpointer (MemorySaver) keeps whole snapshots: app.invoke loads  *)
(* the latest checkpoint of its thread, works on its own copy of the       *)
(* messages, and saves that copy as the thread's latest checkpoint after   *)
(* the input and after every node. Nothing serializes the invocations of   *)
(* one thread.                                                             *)
(***************************************************************************)
EXTENDS Integers, Sequences, FiniteSets, TLC

\* ------------------------------------------------------------- bounds
NumSessions == 2   \* chats known to the bot
MaxTurns == 2      \* app.invoke calls started in one behaviour
MaxRounds == 1     \* agent steps of one turn that request tools
MaxCalls == 2      \* tool calls carried by one assistant message
AcctTurns == 2     \* turns started where the model requests the account tools
AcctCalls == 1     \* tool calls per assistant message there
KeyTurns == 3      \* turns started where the model requests only generate and deploy
KeyCalls == 1      \* tool calls per assistant message there
FundTurns == 2     \* turns started where the model requests transfers and swaps
FundCalls == 1     \* tool calls per assistant message there
SwapTurns == 1     \* turns started where the model requests swaps of any tokens
SwapCalls == 1     \* tool calls per assistant message there
SendTurns == 1     \* turns started where the model requests transfers of any amount
SendCalls == 1     \* tool calls per assistant message there
StopTurns == 3     \* turns started where the model only starts and stops the action
StopCalls == 1     \* tool calls per assistant message there
LoopTurns == 2     \* turns started where the model keeps requesting the news
LoopRounds == 3    \* agent steps of one turn that request tools there
LoopCalls == 1     \* tool calls per assistant message there
IsoTurns == 2      \* turns started where two chats use the scheduler and the account tools
IsoCalls == 1      \* tool calls per assistant message there

Sessions == 1..NumSessions

\* ------------------------------------------------------------- state
VARIABLES
  backgroundActionIntervals, \* chat -> timer id, 0 for undefined
  timers,                    \* every setInterval timer created, by id
  history,                   \* checkpointer: thread -> messages of its latest checkpoint
  turns,                     \* every app.invoke call, by id
  env,                       \* constants.js: which of the two account overrides are set
  storage,                   \* util/storage.js: chat -> the three fields kept for it, 0 for absent
  generated,                 \* wallet: how many key pairs generateAccount has made
  deployed,                  \* wallet: the private keys whose account contract is deployed
  requests,                  \* wallet and market: the requests made on behalf of a chat
  lastGenerated,             \* ghost: chat -> key of the generate call that returned last, 0 for none
  hasDeployed,               \* ghost: chat -> a deploy call has returned "Account deployed" for it
  stopped,                   \* ghost: stop returned for the chat and no start was called since
  lastStart,                 \* ghost: the start call that returned last, no scheduler call since
  limits                     \* the run's environment: turns started, what the model may request

scheduler == <<backgroundActionIntervals, timers, stopped, lastStart>>

accounts == <<env, storage, generated, deployed, requests, lastGenerated, hasDeployed>>

vars == <<backgroundActionIntervals, timers, history, turns, env, storage, generated,
          deployed, requests, lastGenerated, hasDeployed, stopped, lastStart, limits>>

None == [timer |-> 0, what |-> "", secs |-> 0]

\* ------------------------------------------------------------- messages
NoRef == <<>>

\* A message also carries, as a ghost, the turn that appended it.
HumanMessage(text) ==
  [role |-> "human", text |-> text, calls |-> <<>>, ref |-> NoRef, turn |-> 0]

AIMessage(calls) ==
  [role |-> "ai", text |-> "", calls |-> calls, ref |-> NoRef, turn |-> 0]

ToolMessage(text, id) ==
  [role |-> "tool", text |-> text, calls |-> <<>>, ref |-> id, turn |-> 0]

By(t, messages) == [i \in 1..Len(messages) |-> [messages[i] EXCEPT !.turn = t]]

Last(s) == s[Len(s)]

\* reducer: (x, y) => x.concat(y)
Reducer(x, y) == x \o y

\* ------------------------------------------------------------- timers
LiveTimers(chat) ==
  {k \in 1..Len(timers) : timers[k].chat = chat /\ timers[k].live}

\* Mutant: the timer is not cleared.
ClearNothing(ts, id) == ts

\* clearInterval(id)
ClearInterval(ts, id) ==
  [k \in 1..Len(ts) |-> IF k = id THEN [ts[k] EXCEPT !.live = FALSE] ELSE ts[k]]

\* Mutant: doAction runs on one fixed thread, whichever chat started it.
SetIntervalOnFirst(ts, chat, what, secs) ==
  Append(ts, [chat |-> 1, what |-> what, ms |-> secs * 1000, live |-> TRUE])

\* setInterval(doAction, intervalInSeconds * 1000): doAction closes over chatId and whatToDo
SetInterval(ts, chat, what, secs) ==
  Append(ts, [chat |-> chat, what |-> what, ms |-> secs * 1000, live |-> TRUE])

\* ------------------------------------------------------------- tool calls
\* One tool invocation of the tools node: the call the assistant message carries
\* (id, name, arguments) and the position and locals of its handler.
ToolCall(id, inv) ==
  [id |-> id, name |-> inv.name, what |-> inv.what, secs |-> inv.secs, args |-> inv.args,
   pc |-> "ready", text |-> "", raised |-> FALSE, timer |-> 0, key |-> 0, addr |-> 0]

\* A decimal string int "." frac, as its digits
Decimal(int, frac) == [int |-> int, frac |-> frac]

\* The arguments of send_eth and swap; a tool without them gets NoArgs.
NoArgs ==
  [recipientAddress |-> "", amountInEth |-> Decimal(<<>>, <<>>),
   tokenInAddress |-> <<>>, tokenOutAddress |-> <<>>, amountIn |-> ""]

Invocation(name) == [name |-> name, what |-> "", secs |-> 0, args |-> NoArgs]

StartInvocation(what, secs) ==
  [name |-> "start_background_action", what |-> what, secs |-> secs, args |-> NoArgs]

SendInvocation(recipientAddress, amountInEth) ==
  [name |-> "send_eth", what |-> "", secs |-> 0,
   args |-> [NoArgs EXCEPT !.recipientAddress = recipientAddress, !.amountInEth = amountInEth]]

\* Token arguments are strings, kept as the sequence of their characters.
SwapInvocation(tokenInAddress, tokenOutAddress, amountIn) ==
  [name |-> "swap", what |-> "", secs |-> 0,
   args |-> [NoArgs EXCEPT !.tokenInAddress = tokenInAddress,
                           !.tokenOutAddress = tokenOutAddress, !.amountIn = amountIn]]

\* The sequences of at most n invocations drawn from menu.
RECURSIVE SeqsUpTo(_, _)
SeqsUpTo(menu, n) ==
  IF n = 0 THEN {<<>>}
  ELSE LET shorter == SeqsUpTo(menu, n - 1)
       IN shorter \cup {Append(q, inv) : q \in {x \in shorter : Len(x) = n - 1}, inv \in menu}

\* What ToolNode answers when a handler throws (handleToolErrors is on by default).
ToolNodeError == "Error: failed\n Please fix your mistakes."

Return(c, text) == [c EXCEPT !.pc = "done", !.text = text]

Raise(c) == [c EXCEPT !.pc = "done", !.text = ToolNodeError, !.raised = TRUE]

TurnCalls == {p \in (1..Len(turns)) \X (1..limits.calls) : p[2] <= Len(turns[p[1]].calls)}

Running(p, name, pc) ==
  /\ turns[p[1]].node = "tools"
  /\ turns[p[1]].calls[p[2]].name = name
  /\ turns[p[1]].calls[p[2]].pc = pc

SetCall(p, c) == turns' = [turns EXCEPT ![p[1]].calls[p[2]] = c]

\* A start handler of the chat is suspended at its await, between setInterval and the store.
StartSuspended(chat) ==
  \E p \in TurnCalls :
    turns[p[1]].chat = chat /\ Running(p, "start_background_action", "await")

\* Mutant: the overrides are never seen.
NeverFixedAccount == FALSE

\* STARKNET_ACCOUNT_ADDRESS && STARKNET_PRIVATE_KEY
FixedAccount == env.address /\ env.privateKey

\* The handlers that return without waiting for I/O.
NoIO(name) ==
  \/ name \in {"start_background_action", "stop_background_action"}
  \/ name \in {"generate_starknet_account", "deploy_starknet_account"} /\ FixedAccount

\* Node.js runs queued promise continuations (microtasks) before the next timer or I/O
\* callback. The scheduler handlers never wait for I/O: their bodies, the continuation of
\* await setInterval(...) and the return of a tools node whose handlers are all done are
\* microtasks, and so is an account handler that refuses. A timer, an incoming message,
\* or the answer of the model or of a collaborator is handled only once none is queued.
MicrotaskQueued ==
  \/ \E p \in TurnCalls :
       /\ turns[p[1]].node = "tools"
       /\ NoIO(turns[p[1]].calls[p[2]].name)
       /\ turns[p[1]].calls[p[2]].pc # "done"
  \/ \E t \in 1..Len(turns) :
       /\ turns[t].node = "tools"
       /\ \A i \in 1..Len(turns[t].calls) : turns[t].calls[i].pc = "done"

\* ------------------------------------------------------------- the graph
\* Mutant: a single tool call is not followed.
ShouldContinueOnSeveral(messages) ==
  IF Len(Last(messages).calls) > 1 THEN "tools" ELSE "__end__"

ShouldContinue(messages) ==
  IF Len(Last(messages).calls) > 0 THEN "tools" ELSE "__end__"

\* app.invoke({messages: [new HumanMessage(text)]}, {configurable: {thread_id}}):
\* the thread's latest checkpoint is loaded, the input is reduced into it and saved.
Invoke(chat, origin, timer, text) ==
  LET messages == Reducer(history[chat], By(Len(turns) + 1, <<HumanMessage(text)>>))
  IN /\ ~MicrotaskQueued
     /\ Len(turns) < limits.turns
     /\ turns' = Append(turns,
          [chat |-> chat, origin |-> origin, timer |-> timer, node |-> "agent",
           msgs |-> messages, calls |-> <<>>, base |-> Len(history[chat]),
           rounds |-> 0, toolMsgs |-> 0, sentTo |-> 0,
           met |-> {i \in 1..Len(turns) : turns[i].node # "__end__"}])
     /\ history' = [history EXCEPT ![chat] = messages]

\* bot.on(message("text")): a user message starts a turn on the chat's thread.
UserMessage ==
  \E chat \in limits.chats :
    /\ Invoke(chat, "user", 0, "hi")
    /\ UNCHANGED <<scheduler, accounts, limits>>

\* A live interval timer fires: doAction starts a turn with whatToDo as the message.
TimerFires ==
  \E k \in 1..Len(timers) :
    /\ timers[k].live
    /\ Invoke(timers[k].chat, "timer", k, timers[k].what)
    /\ UNCHANGED <<scheduler, accounts, limits>>

\* Mutant: a step appends what it produced to whatever the thread holds by then.
PutAppended(stored, copy, appended) == Reducer(stored, appended)

\* MemorySaver.put after a step: the checkpoint written is the turn's own copy of the
\* channel, which replaces what the thread held.
Put(stored, copy, appended) == copy

\* Mutant: the answer of a timer turn is sent only while its timer is live.
SendWhileLive(t) ==
  IF turns[t].origin = "timer" /\ ~timers[turns[t].timer].live THEN 0 ELSE turns[t].chat

\* ctx.reply(...) and bot.telegram.sendMessage(chatId, ...): where the last message of
\* the final state of turn t is sent.
SendMessage(t) == turns[t].chat

\* The agent node (callModel) followed by the conditional edge (shouldContinue). When
\* the graph ends, invoke resolves and the caller sends the last message to the chat.
CallModel ==
  \E t \in 1..Len(turns) :
    /\ ~MicrotaskQueued
    /\ turns[t].node = "agent"
    /\ \E q \in SeqsUpTo(limits.menu, IF turns[t].rounds < limits.rounds THEN limits.calls ELSE 0) :
         LET tc == [i \in 1..Len(q) |->
                      [id |-> <<t, turns[t].rounds + 1, i>>, name |-> q[i].name,
                       what |-> q[i].what, secs |-> q[i].secs, args |-> q[i].args]]
             appended == By(t, <<AIMessage(tc)>>)
             messages == Reducer(turns[t].msgs, appended)
             next == ShouldContinue(messages)
         IN /\ turns' = [turns EXCEPT
                 ![t].msgs = messages,
                 ![t].node = next,
                 ![t].calls = [i \in 1..Len(q) |-> ToolCall(tc[i].id, q[i])],
                 ![t].rounds = IF next = "tools" THEN @ + 1 ELSE @,
                 ![t].toolMsgs = IF next = "tools" THEN @ + 1 + Len(q) ELSE @,
                 ![t].sentTo = IF next = "__end__" THEN SendMessage(t) ELSE @]
            /\ history' = [history EXCEPT ![turns[t].chat] = Put(@, messages, appended)]
    /\ UNCHANGED <<scheduler, accounts, limits>>

\* Mutant: a call whose handler threw gets no result.
ToolResultsOfReturned(calls) ==
  LET returned == SelectSeq(calls, LAMBDA c : ~c.raised)
  IN [i \in 1..Len(returned) |-> ToolMessage(returned[i].text, returned[i].id)]

\* What the tools node returns: one ToolMessage per call, in call order.
ToolResults(calls) == [i \in 1..Len(calls) |-> ToolMessage(calls[i].text, calls[i].id)]

\* The tools node returns once every handler has, and the edge leads back to agent.
ToolsReturn ==
  \E t \in 1..Len(turns) :
    /\ turns[t].node = "tools"
    /\ \A i \in 1..Len(turns[t].calls) : turns[t].calls[i].pc = "done"
    /\ LET appended == By(t, ToolResults(turns[t].calls))
           messages == Reducer(turns[t].msgs, appended)
       IN /\ turns' = [turns EXCEPT ![t].msgs = messages, ![t].node = "agent", ![t].calls = <<>>]
          /\ history' = [history EXCEPT ![turns[t].chat] = Put(@, messages, appended)]
    /\ UNCHANGED <<scheduler, accounts, limits>>

\* ------------------------------------------------------------- scheduler tools
\* startBackgroundAction up to its await: clear the recorded timer, create the new one.
StartCreateAt(p) ==
  /\ Running(p, "start_background_action", "ready")
  /\ LET chatId == turns[p[1]].chat
         c == turns[p[1]].calls[p[2]]
         old == backgroundActionIntervals[chatId]
         cleared == IF old # 0 THEN ClearInterval(timers, old) ELSE timers
     IN /\ timers' = SetInterval(cleared, chatId, c.what, c.secs)
        /\ backgroundActionIntervals' = [backgroundActionIntervals EXCEPT ![chatId] = 0]
        /\ SetCall(p, [c EXCEPT !.pc = "await", !.timer = Len(timers) + 1])
        /\ stopped' = [stopped EXCEPT ![chatId] = FALSE]
        /\ lastStart' = [lastStart EXCEPT ![chatId] = None]
  /\ UNCHANGED <<history, accounts, limits>>

\* startBackgroundAction after its await: record the timer and return.
StartStoreAt(p) ==
  /\ Running(p, "start_background_action", "await")
  /\ LET chatId == turns[p[1]].chat
         c == turns[p[1]].calls[p[2]]
     IN /\ backgroundActionIntervals' = [backgroundActionIntervals EXCEPT ![chatId] = c.timer]
        /\ SetCall(p, Return(c, "Started."))
        /\ lastStart' = [lastStart EXCEPT
             ![chatId] = [timer |-> c.timer, what |-> c.what, secs |-> c.secs]]
  /\ UNCHANGED <<timers, stopped, history, accounts, limits>>

\* Mutant: stop reports a failure when there is nothing to stop.
StopOrComplain(p) ==
  /\ Running(p, "stop_background_action", "ready")
  /\ LET chatId == turns[p[1]].chat
         c == turns[p[1]].calls[p[2]]
         old == backgroundActionIntervals[chatId]
     IN /\ timers' = IF old # 0 THEN ClearInterval(timers, old) ELSE timers
        /\ backgroundActionIntervals' = [backgroundActionIntervals EXCEPT ![chatId] = 0]
        /\ SetCall(p, Return(c, IF old # 0 THEN "Stopped." ELSE "Nothing to stop."))
        /\ stopped' = [stopped EXCEPT ![chatId] = TRUE]
        /\ lastStart' = [lastStart EXCEPT ![chatId] = None]
  /\ UNCHANGED <<history, accounts, limits>>

\* stopBackgroundAction: no await in its body.
StopAt(p) ==
  /\ Running(p, "stop_background_action", "ready")
  /\ LET chatId == turns[p[1]].chat
         c == turns[p[1]].calls[p[2]]
         old == backgroundActionIntervals[chatId]
     IN /\ timers' = IF old # 0 THEN ClearInterval(timers, old) ELSE timers
        /\ backgroundActionIntervals' = [backgroundActionIntervals EXCEPT ![chatId] = 0]
        /\ SetCall(p, Return(c, "Stopped."))
        /\ stopped' = [stopped EXCEPT ![chatId] = TRUE]
        /\ lastStart' = [lastStart EXCEPT ![chatId] = None]
  /\ UNCHANGED <<history, accounts, limits>>

StartCreate == \E p \in TurnCalls : StartCreateAt(p)

StartStore == \E p \in TurnCalls : StartStoreAt(p)

Stop == \E p \in TurnCalls : StopAt(p)

\* The same handlers when calls follow one another: a handler body begins only while no
\* start handler of the chat is suspended.
SeqStartCreate ==
  \E p \in TurnCalls : ~StartSuspended(turns[p[1]].chat) /\ StartCreateAt(p)

SeqStop ==
  \E p \in TurnCalls : ~StartSuspended(turns[p[1]].chat) /\ StopAt(p)

\* ------------------------------------------------------------- news tool
\* getNewsTool: JSON.stringify(await getNews()), with no try/catch.
GetNews ==
  \E p \in TurnCalls : \E ok \in BOOLEAN :
    /\ ~MicrotaskQueued
    /\ Running(p, "get_news", "ready")
    /\ SetCall(p, IF ok THEN Return(turns[p[1]].calls[p[2]], "[news]")
                        ELSE Raise(turns[p[1]].calls[p[2]]))
    /\ UNCHANGED <<history, scheduler, accounts, limits>>

\* ------------------------------------------------------------- numbers
\* Numbers beyond the machine integers of the checker are kept as their decimal digits,
\* least significant first, without leading zeros; zero is the empty sequence.
Rev(s) == [i \in 1..Len(s) |-> s[Len(s) + 1 - i]]

RECURSIVE Trim(_)
Trim(d) == IF d # <<>> /\ d[Len(d)] = 0 THEN Trim(SubSeq(d, 1, Len(d) - 1)) ELSE d

\* d * c + carry for a small c
RECURSIVE MulWith(_, _, _)
MulWith(d, c, carry) ==
  IF d = <<>> THEN (IF carry = 0 THEN <<>> ELSE <<carry % 10>> \o MulWith(d, c, carry \div 10))
  ELSE <<(c * Head(d) + carry) % 10>> \o MulWith(Tail(d), c, (c * Head(d) + carry) \div 10)

\* The digits i.. of d, as a number, modulo a small c
RECURSIVE ModFrom(_, _, _)
ModFrom(d, c, i) == IF i > Len(d) THEN 0 ELSE (10 * ModFrom(d, c, i + 1) + d[i]) % c

\* floor(d / c) by long division: each digit is divided under the remainder of those above
Div(d, c) == Trim([i \in 1..Len(d) |-> (10 * ModFrom(d, c, i + 1) + d[i]) \div c])

Twice(d) == MulWith(d, 2, 0)

Times256(d) == MulWith(d, 256, 0)

Odd(d) == d # <<>> /\ d[1] % 2 = 1

Half(d) == Div(d, 2)

Over256(d) == Div(d, 256)

Mod256(d) == ModFrom(d, 256, 1)

RECURSIVE Inc(_)
Inc(d) ==
  IF d = <<>> THEN <<1>>
  ELSE IF Head(d) < 9 THEN <<Head(d) + 1>> \o Tail(d) ELSE <<0>> \o Inc(Tail(d))

RECURSIVE LessFrom(_, _, _)
LessFrom(a, b, i) ==
  IF i = 0 THEN FALSE
  ELSE IF a[i] # b[i] THEN a[i] < b[i] ELSE LessFrom(a, b, i - 1)

Less(a, b) == Len(a) < Len(b) \/ (Len(a) = Len(b) /\ LessFrom(a, b, Len(a)))

RECURSIVE Zeros(_)
Zeros(n) == IF n = 0 THEN <<>> ELSE <<0>> \o Zeros(n - 1)

\* An IEEE 754 double other than zero is m * 2^e with 2^52 <= m < 2^53.
Two52 == Rev(<<4, 5, 0, 3, 5, 9, 9, 6, 2, 7, 3, 7, 0, 4, 9, 6>>)

Two53 == Twice(Two52)

Zero == [m |-> <<>>, e |-> 0]

Double(m, e) == IF m = Two53 THEN [m |-> Two52, e |-> e + 1] ELSE [m |-> m, e |-> e]

\* x * 2^t / 10^k with t the least for which the quotient reaches 2^52 (eight doublings
\* at a time while that stays below)
RECURSIVE ScaleUp(_, _, _)
ScaleUp(x, k, t) ==
  IF Less(SubSeq(Times256(x), k + 1, Len(Times256(x))), Two52) THEN ScaleUp(Times256(x), k, t + 8)
  ELSE IF Less(SubSeq(x, k + 1, Len(x)), Two52) THEN ScaleUp(Twice(x), k, t + 1)
  ELSE [x |-> x, t |-> t]

\* Is the remainder r of a division by 10^k above the half, or at the half with odd quotient?
RoundsUp(r, k, odd) ==
  /\ k > 0
  /\ \/ r[k] > 5
     \/ r[k] = 5 /\ ((\E i \in 1..(k - 1) : r[i] # 0) \/ odd)

\* parseFloat of the decimal string int "." frac (digits, most significant first): the
\* nearest double, ties to even.
ParseFloat(amount) ==
  LET k == Len(amount.frac)
      n == Trim(Rev(amount.int \o amount.frac))
  IN IF n = <<>> THEN Zero
     ELSE LET s == ScaleUp(n, k, 0)
              q == SubSeq(s.x, k + 1, Len(s.x))
              r == SubSeq(s.x, 1, k)
          IN Double(IF RoundsUp(r, k, Odd(q)) THEN Inc(q) ELSE q, 0 - s.t)

\* y / 2^s rounded to 53 bits, ties to even: round is the last bit shifted out, sticky
\* tells whether any bit before it was set (eight bits at a time while more remain).
RECURSIVE ShiftDown(_, _, _, _)
ShiftDown(y, e, round, sticky) ==
  IF Less(y, Two53)
  THEN Double(IF round /\ (sticky \/ Odd(y)) THEN Inc(y) ELSE y, e)
  ELSE IF Less(y, Times256(Two53))
  THEN ShiftDown(Half(y), e + 1, Odd(y), sticky \/ round)
  ELSE ShiftDown(Over256(y), e + 8, FALSE, sticky \/ round \/ Mod256(y) # 0)

\* x * 1e18 in double arithmetic: 1e18 is a double, the exact product is rounded.
Times1e18(x) ==
  IF x = Zero THEN Zero ELSE ShiftDown(Zeros(18) \o x.m, x.e, FALSE, FALSE)

\* floor(d * 2^e)
RECURSIVE Shift(_, _)
Shift(d, e) ==
  IF e = 0 THEN d
  ELSE IF e >= 8 THEN Shift(Times256(d), e - 8)
  ELSE IF e > 0 THEN Shift(Twice(d), e - 1)
  ELSE IF e <= 0 - 8 THEN Shift(Over256(d), e + 8)
  ELSE Shift(Half(d), e + 1)

\* Math.floor of a double that is not negative, as an integer
Floor(x) == Shift(x.m, x.e)

\* BigInt(...).toString(): the decimal digits, most significant first
DigitsOf(d) == IF d = <<>> THEN <<0>> ELSE Rev(d)

\* BigInt(Math.floor(parseFloat(amountInEth) * 1e18)).toString()
AmountInWei(amountInEth) == DigitsOf(Floor(Times1e18(ParseFloat(amountInEth))))

\* ------------------------------------------------------------- account tools
Refusal == "The account is set in the env and cannot be changed."

\* util/wallet.js: the contract address of a key pair
ContractAddress(privateKey) == 100 + privateKey

Save(chat, field, value) == storage' = [storage EXCEPT ![chat][field] = value]

\* generateStarknetAccountTool up to the answer of generateAccount(), no try/catch.
GenerateAccount ==
  \E p \in TurnCalls : \E ok \in BOOLEAN :
    /\ Running(p, "generate_starknet_account", "ready")
    /\ LET c == turns[p[1]].calls[p[2]]
       IN IF FixedAccount
          THEN /\ ok
               /\ SetCall(p, Return(c, Refusal))
               /\ UNCHANGED generated
          ELSE /\ ~MicrotaskQueued
               /\ IF ok
                  THEN /\ generated' = generated + 1
                       /\ SetCall(p, [c EXCEPT !.pc = "generated", !.key = generated + 1,
                                               !.addr = ContractAddress(generated + 1)])
                  ELSE /\ SetCall(p, Raise(c))
                       /\ UNCHANGED generated
    /\ UNCHANGED <<history, scheduler, env, storage, deployed, requests, lastGenerated, hasDeployed, limits>>

\* Mutant: a key already generated for the chat is kept.
GenerateSaveIfAbsent ==
  \E p \in TurnCalls : \E ok \in BOOLEAN :
    /\ ~MicrotaskQueued
    /\ Running(p, "generate_starknet_account", "generated")
    /\ LET c == turns[p[1]].calls[p[2]]
           chatId == turns[p[1]].chat
       IN IF ok
          THEN /\ IF storage[chatId].generatedAccountPrivateKey = 0
                  THEN Save(chatId, "generatedAccountPrivateKey", c.key)
                  ELSE UNCHANGED storage
               /\ lastGenerated' = [lastGenerated EXCEPT ![chatId] = c.key]
               /\ SetCall(p, Return(c, "Here is the new account address: " \o ToString(c.addr)
                                       \o " . Please send some funds to it"))
          ELSE /\ SetCall(p, Raise(c))
               /\ UNCHANGED <<storage, lastGenerated>>
    /\ UNCHANGED <<history, scheduler, env, generated, deployed, requests, hasDeployed, limits>>

\* generateStarknetAccountTool from saveToStorage(generatedAccountPrivateKey) to its return.
GenerateSave ==
  \E p \in TurnCalls : \E ok \in BOOLEAN :
    /\ ~MicrotaskQueued
    /\ Running(p, "generate_starknet_account", "generated")
    /\ LET c == turns[p[1]].calls[p[2]]
       IN IF ok
          THEN /\ Save(turns[p[1]].chat, "generatedAccountPrivateKey", c.key)
               /\ lastGenerated' = [lastGenerated EXCEPT ![turns[p[1]].chat] = c.key]
               /\ SetCall(p, Return(c, "Here is the new account address: " \o ToString(c.addr)
                                       \o " . Please send some funds to it"))
          ELSE /\ SetCall(p, Raise(c))
               /\ UNCHANGED <<storage, lastGenerated>>
    /\ UNCHANGED <<history, scheduler, env, generated, deployed, requests, hasDeployed, limits>>

\* deployStarknetAccountTool up to the answer of readFromStorage, no try/catch.
DeployRead ==
  \E p \in TurnCalls : \E ok \in BOOLEAN :
    /\ Running(p, "deploy_starknet_account", "ready")
    /\ LET c == turns[p[1]].calls[p[2]]
       IN IF FixedAccount
          THEN /\ ok
               /\ SetCall(p, Return(c, Refusal))
          ELSE /\ ~MicrotaskQueued
               /\ SetCall(p, IF ok
                    THEN [c EXCEPT !.pc = "read",
                                   !.key = storage[turns[p[1]].chat].generatedAccountPrivateKey]
                    ELSE Raise(c))
    /\ UNCHANGED <<history, scheduler, accounts, limits>>

\* util/wallet.js: deployAccount needs a private key; without one it throws.
Deployable(privateKey) == privateKey # 0

\* deployStarknetAccountTool: the answer of deployAccount(privateKey).
DeployAccount ==
  \E p \in TurnCalls : \E ok \in BOOLEAN :
    /\ ~MicrotaskQueued
    /\ Running(p, "deploy_starknet_account", "read")
    /\ LET c == turns[p[1]].calls[p[2]]
       IN IF ok /\ Deployable(c.key)
          THEN /\ deployed' = deployed \cup {c.key}
               /\ SetCall(p, [c EXCEPT !.pc = "deployed", !.addr = ContractAddress(c.key)])
          ELSE /\ SetCall(p, Raise(c))
               /\ UNCHANGED deployed
    /\ UNCHANGED <<history, scheduler, env, storage, generated, requests, lastGenerated, hasDeployed, limits>>

\* deployStarknetAccountTool: saveToStorage(privateKey).
DeploySaveKey ==
  \E p \in TurnCalls : \E ok \in BOOLEAN :
    /\ ~MicrotaskQueued
    /\ Running(p, "deploy_starknet_account", "deployed")
    /\ LET c == turns[p[1]].calls[p[2]]
       IN IF ok
          THEN /\ Save(turns[p[1]].chat, "privateKey", c.key)
               /\ SetCall(p, [c EXCEPT !.pc = "savedKey"])
          ELSE /\ SetCall(p, Raise(c))
               /\ UNCHANGED storage
    /\ UNCHANGED <<history, scheduler, env, generated, deployed, requests, lastGenerated, hasDeployed, limits>>

\* deployStarknetAccountTool: saveToStorage(accountAddress) and the return.
DeploySaveAddress ==
  \E p \in TurnCalls : \E ok \in BOOLEAN :
    /\ ~MicrotaskQueued
    /\ Running(p, "deploy_starknet_account", "savedKey")
    /\ LET c == turns[p[1]].calls[p[2]]
       IN IF ok
          THEN /\ Save(turns[p[1]].chat, "accountAddress", c.addr)
               /\ hasDeployed' = [hasDeployed EXCEPT ![turns[p[1]].chat] = TRUE]
               /\ SetCall(p, Return(c, "Account deployed. Address: " \o ToString(c.addr)))
          ELSE /\ SetCall(p, Raise(c))
               /\ UNCHANGED <<storage, hasDeployed>>
    /\ UNCHANGED <<history, scheduler, env, generated, deployed, requests, lastGenerated, limits>>

\* ------------------------------------------------------------- funds tools
NoAccountText == "Account does not exist, you need to create one first."

Absent == [address |-> 0, privateKey |-> 0]

\* The address the override names
EnvAddress == 900

\* util/wallet.js getAccount(chatId): the handle of the chat's active account, the fixed
\* one when the overrides are set, else the one in the chat's deployed slot.
GetAccount(chat) ==
  IF FixedAccount THEN [address |-> EnvAddress, privateKey |-> EnvAddress]
  ELSE IF storage[chat].privateKey # 0 /\ storage[chat].accountAddress # 0
  THEN [address |-> storage[chat].accountAddress, privateKey |-> storage[chat].privateKey]
  ELSE Absent

Upper ==
  <<"A", "B", "C", "D", "E", "F", "G", "H", "I", "J", "K", "L", "M",
    "N", "O", "P", "Q", "R", "S", "T", "U", "V", "W", "X", "Y", "Z">>

Lower ==
  <<"a", "b", "c", "d", "e", "f", "g", "h", "i", "j", "k", "l", "m",
    "n", "o", "p", "q", "r", "s", "t", "u", "v", "w", "x", "y", "z">>

\* Mutant: the token is compared as it is written.
SameCase(token) == token

\* String.prototype.toLowerCase on the characters of a token
ToLowerCase(token) ==
  [i \in 1..Len(token) |->
     IF \E n \in 1..Len(Upper) : Upper[n] = token[i]
     THEN Lower[CHOOSE n \in 1..Len(Upper) : Upper[n] = token[i]]
     ELSE token[i]]

\* Mutant: the handle is not looked at.
AnyAccount(account) == TRUE

\* if (!account) return "Account does not exist..."
Exists(account) == account # Absent

\* A request to the wallet or the market on behalf of a chat
Request(chat, kind, account, args) ==
  [chat |-> chat, kind |-> kind, account |-> account.address, to |-> args.recipientAddress,
   amountInWei |-> args.amountInWei, amountIn |-> args.amountIn,
   tokenIn |-> args.tokenIn, tokenOut |-> args.tokenOut]

\* swap.js: the canonical token addresses
ETH_ADDRESS == <<"0", "x", "4", "9", "d">>

STRK_ADDRESS == <<"0", "x", "4", "7", "1">>

\* tokenInAddress.toLowerCase() === 'eth' ? ETH_ADDRESS : ... === 'strk' ? STRK_ADDRESS : it
NormalizeToken(token) ==
  IF ToLowerCase(token) = <<"e", "t", "h">> THEN ETH_ADDRESS
  ELSE IF ToLowerCase(token) = <<"s", "t", "r", "k">> THEN STRK_ADDRESS
  ELSE token

SendError == "Error sending ETH: failed"

SwapError ==
  "Failed to execute swap: failed. Please try again with a different amount or check your balance."

\* sendEthTool up to account.execute(...): the answer of getAccount, the conversion of the
\* amount and the transfer request; a failure is caught and returned as text.
SendGetAccount ==
  \E p \in TurnCalls : \E ok \in BOOLEAN :
    /\ ~MicrotaskQueued
    /\ Running(p, "send_eth", "ready")
    /\ LET c == turns[p[1]].calls[p[2]]
           chatId == turns[p[1]].chat
           account == GetAccount(chatId)
       IN IF ~ok
          THEN SetCall(p, Return(c, SendError)) /\ UNCHANGED requests
          ELSE IF ~Exists(account)
          THEN SetCall(p, Return(c, NoAccountText)) /\ UNCHANGED requests
          ELSE /\ requests' = requests \cup
                    {Request(chatId, "transfer", account,
                             [recipientAddress |-> c.args.recipientAddress,
                              amountInWei |-> AmountInWei(c.args.amountInEth),
                              amountIn |-> "", tokenIn |-> <<>>, tokenOut |-> <<>>])}
               /\ SetCall(p, [c EXCEPT !.pc = "execute"])
    /\ UNCHANGED <<history, scheduler, env, storage, generated, deployed, lastGenerated,
                   hasDeployed, limits>>

\* sendEthTool: the answer of account.execute(...).
SendExecute ==
  \E p \in TurnCalls : \E ok \in BOOLEAN :
    /\ ~MicrotaskQueued
    /\ Running(p, "send_eth", "execute")
    /\ SetCall(p, Return(turns[p[1]].calls[p[2]],
                         IF ok THEN "Transaction submitted to Sepolia. Hash: 0x1" ELSE SendError))
    /\ UNCHANGED <<history, scheduler, accounts, limits>>

\* swapTool up to getQuote(...): the answer of getAccount, the two tokens, the quote request.
SwapGetAccount ==
  \E p \in TurnCalls : \E ok \in BOOLEAN :
    /\ ~MicrotaskQueued
    /\ Running(p, "swap", "ready")
    /\ LET c == turns[p[1]].calls[p[2]]
           chatId == turns[p[1]].chat
           account == GetAccount(chatId)
       IN IF ~ok
          THEN SetCall(p, Return(c, SwapError)) /\ UNCHANGED requests
          ELSE IF ~Exists(account)
          THEN SetCall(p, Return(c, NoAccountText)) /\ UNCHANGED requests
          ELSE /\ requests' = requests \cup
                    {Request(chatId, "quote", account,
                             [recipientAddress |-> "", amountInWei |-> <<>>,
                              amountIn |-> c.args.amountIn,
                              tokenIn |-> NormalizeToken(c.args.tokenInAddress),
                              tokenOut |-> NormalizeToken(c.args.tokenOutAddress)])}
               /\ SetCall(p, [c EXCEPT !.pc = "quote"])
    /\ UNCHANGED <<history, scheduler, env, storage, generated, deployed, lastGenerated,
                   hasDeployed, limits>>

\* swapTool: the answer of getQuote(...) and the request executeSwap(account, quote, ...).
SwapQuote ==
  \E p \in TurnCalls : \E ok \in BOOLEAN :
    /\ ~MicrotaskQueued
    /\ Running(p, "swap", "quote")
    /\ LET c == turns[p[1]].calls[p[2]]
           chatId == turns[p[1]].chat
       IN IF ~ok
          THEN SetCall(p, Return(c, SwapError)) /\ UNCHANGED requests
          ELSE /\ requests' = requests \cup
                    {[r EXCEPT !.kind = "swap"] :
                       r \in {x \in requests : x.chat = chatId /\ x.kind = "quote"
                                 /\ x.amountIn = c.args.amountIn
                                 /\ x.tokenIn = NormalizeToken(c.args.tokenInAddress)
                                 /\ x.tokenOut = NormalizeToken(c.args.tokenOutAddress)}}
               /\ SetCall(p, [c EXCEPT !.pc = "swap"])
    /\ UNCHANGED <<history, scheduler, env, storage, generated, deployed, lastGenerated,
                   hasDeployed, limits>>

\* swapTool: the answer of executeSwap(...).
SwapExecute ==
  \E p \in TurnCalls : \E ok \in BOOLEAN :
    /\ ~MicrotaskQueued
    /\ Running(p, "swap", "swap")
    /\ SetCall(p, Return(turns[p[1]].calls[p[2]],
                         IF ok THEN "Swap executed successfully! Transaction hash: 0x2"
                               ELSE SwapError))
    /\ UNCHANGED <<history, scheduler, accounts, limits>>

\* ------------------------------------------------------------- specifications
SchedulerMenu ==
  {StartInvocation("a", 1), Invocation("stop_background_action"), Invocation("get_news")}

SeqMenu == {StartInvocation("a", 1), StartInvocation("b", 2), Invocation("stop_background_action")}

NoStorage ==
  [chat \in Sessions |->
     [generatedAccountPrivateKey |-> 0, privateKey |-> 0, accountAddress |-> 0]]

\* Nothing scheduled, no message exchanged.
InitState ==
  /\ backgroundActionIntervals = [chat \in Sessions |-> 0]
  /\ timers = <<>>
  /\ history = [chat \in Sessions |-> <<>>]
  /\ turns = <<>>
  /\ stopped = [chat \in Sessions |-> FALSE]
  /\ lastStart = [chat \in Sessions |-> None]

\* The store holds s, left by earlier generate and deploy calls that made n key pairs
\* and deployed keys; no request is pending.
Stored(s, n, keys) ==
  /\ storage = s
  /\ generated = n
  /\ deployed = keys
  /\ requests = {}
  /\ lastGenerated = [chat \in Sessions |-> s[chat].generatedAccountPrivateKey]
  /\ hasDeployed = [chat \in Sessions |-> s[chat].accountAddress # 0]

\* No override set, nothing stored.
NoAccounts ==
  /\ env = [address |-> FALSE, privateKey |-> FALSE]
  /\ Stored(NoStorage, 0, {})

Limits(maxTurns, maxCalls, menu) ==
  [turns |-> maxTurns, rounds |-> MaxRounds, calls |-> maxCalls, chats |-> Sessions,
   menu |-> menu]

\* The scheduler and the news tool under any interleaving of the handlers.
Init == InitState /\ NoAccounts /\ limits = Limits(MaxTurns, MaxCalls, SchedulerMenu)

Next ==
  \/ UserMessage
  \/ TimerFires
  \/ CallModel
  \/ ToolsReturn
  \/ StartCreate
  \/ StartStore
  \/ Stop
  \/ GetNews

Spec == Init /\ [][Next]_vars

\* The scheduler when the calls of a chat follow one another.
InitSeq == InitState /\ NoAccounts /\ limits = Limits(MaxTurns, MaxCalls, SeqMenu)

NextSeq ==
  \/ UserMessage
  \/ TimerFires
  \/ CallModel
  \/ ToolsReturn
  \/ SeqStartCreate
  \/ StartStore
  \/ SeqStop

SpecSeq == InitSeq /\ [][NextSeq]_vars

\* One chat whose turns start and stop a background action, the model and the handlers
\* always answering: an awaited model call resolves and a handler body runs to its end.
StopMenu == {StartInvocation("a", 1), Invocation("stop_background_action")}

InitStop ==
  /\ InitState
  /\ NoAccounts
  /\ limits = [Limits(StopTurns, StopCalls, StopMenu) EXCEPT !.chats = {1}]

NextStop ==
  \/ UserMessage
  \/ TimerFires
  \/ CallModel
  \/ ToolsReturn
  \/ StartCreate
  \/ StartStore
  \/ Stop

SpecStop ==
  /\ InitStop
  /\ [][NextStop]_vars
  /\ WF_vars(CallModel)
  /\ WF_vars(ToolsReturn)
  /\ WF_vars(StartCreate)
  /\ WF_vars(StartStore)
  /\ WF_vars(Stop)

\* One chat whose turns fetch the news round after round, the model and the handler
\* always answering.
LoopMenu == {Invocation("get_news")}

InitLoop ==
  /\ InitState
  /\ NoAccounts
  /\ limits = [Limits(LoopTurns, LoopCalls, LoopMenu) EXCEPT
                 !.chats = {1}, !.rounds = LoopRounds]

NextLoop ==
  \/ UserMessage
  \/ CallModel
  \/ ToolsReturn
  \/ GetNews

SpecLoop ==
  /\ InitLoop
  /\ [][NextLoop]_vars
  /\ WF_vars(CallModel)
  /\ WF_vars(ToolsReturn)
  /\ WF_vars(GetNews)

\* The account and news tools, under every setting of the two overrides, on a fresh
\* store and on one that already holds a deployed account for chat 1.
AcctMenu ==
  {Invocation("get_news"), Invocation("generate_starknet_account"),
   Invocation("deploy_starknet_account")}

OldStorage ==
  [NoStorage EXCEPT ![1] = [generatedAccountPrivateKey |-> 1, privateKey |-> 1,
                            accountAddress |-> ContractAddress(1)]]

InitAcct ==
  /\ InitState
  /\ env \in [address : BOOLEAN, privateKey : BOOLEAN]
  /\ Stored(NoStorage, 0, {}) \/ Stored(OldStorage, 1, {1})
  /\ limits = Limits(AcctTurns, AcctCalls, AcctMenu)

NextAcct ==
  \/ UserMessage
  \/ CallModel
  \/ ToolsReturn
  \/ GetNews
  \/ GenerateAccount
  \/ GenerateSave
  \/ DeployRead
  \/ DeployAccount
  \/ DeploySaveKey
  \/ DeploySaveAddress

SpecAcct == InitAcct /\ [][NextAcct]_vars

\* generate and deploy on one chat without overrides, on a fresh store and on one that
\* already holds a deployed account.
KeyMenu == {Invocation("generate_starknet_account"), Invocation("deploy_starknet_account")}

InitKeys ==
  /\ InitState
  /\ env = [address |-> FALSE, privateKey |-> FALSE]
  /\ Stored(NoStorage, 0, {}) \/ Stored(OldStorage, 1, {1})
  /\ limits = [Limits(KeyTurns, KeyCalls, KeyMenu) EXCEPT !.chats = {1}]

NextKeys ==
  \/ UserMessage
  \/ CallModel
  \/ ToolsReturn
  \/ GenerateAccount
  \/ GenerateSave
  \/ DeployRead
  \/ DeployAccount
  \/ DeploySaveKey
  \/ DeploySaveAddress

SpecKeys == InitKeys /\ [][NextKeys]_vars

\* Two chats whose turns start and stop background actions and generate and deploy
\* accounts, chat 1 holding a deployed account or none.
IsoMenu ==
  {StartInvocation("a", 1), Invocation("stop_background_action"),
   Invocation("generate_starknet_account"), Invocation("deploy_starknet_account")}

InitIso ==
  /\ InitState
  /\ env = [address |-> FALSE, privateKey |-> FALSE]
  /\ Stored(NoStorage, 0, {}) \/ Stored(OldStorage, 1, {1})
  /\ limits = Limits(IsoTurns, IsoCalls, IsoMenu)

NextIso ==
  \/ UserMessage
  \/ TimerFires
  \/ CallModel
  \/ ToolsReturn
  \/ StartCreate
  \/ StartStore
  \/ Stop
  \/ GenerateAccount
  \/ GenerateSave
  \/ DeployRead
  \/ DeployAccount
  \/ DeploySaveKey
  \/ DeploySaveAddress

SpecIso == InitIso /\ [][NextIso]_vars

\* Transfers and swaps next to generate and deploy on one chat, with and without the
\* overrides, on a fresh store, on one with a generated key and on one with a deployed
\* account.
FundMenu ==
  {Invocation("generate_starknet_account"), Invocation("deploy_starknet_account"),
   SendInvocation("0xb0b", Decimal(<<1>>, <<1>>)),
   SwapInvocation(<<"E", "T", "H">>, <<"s", "t", "r", "k">>, "1")}

GeneratedStorage == [NoStorage EXCEPT ![1].generatedAccountPrivateKey = 1]

InitFunds ==
  /\ InitState
  /\ env \in {[address |-> FALSE, privateKey |-> FALSE], [address |-> TRUE, privateKey |-> TRUE]}
  /\ \/ Stored(NoStorage, 0, {})
     \/ Stored(GeneratedStorage, 1, {})
     \/ Stored(OldStorage, 1, {1})
  /\ limits = [Limits(FundTurns, FundCalls, FundMenu) EXCEPT !.chats = {1}]

NextFunds ==
  \/ UserMessage
  \/ CallModel
  \/ ToolsReturn
  \/ GenerateAccount
  \/ GenerateSave
  \/ DeployRead
  \/ DeployAccount
  \/ DeploySaveKey
  \/ DeploySaveAddress
  \/ SendGetAccount
  \/ SendExecute
  \/ SwapGetAccount
  \/ SwapQuote
  \/ SwapExecute

SpecFunds == InitFunds /\ [][NextFunds]_vars

\* One swap of a chat that has a deployed account, for tokens written in any way: every
\* word of three letters of eth in either case (or x), the spellings and misspellings
\* of strk in either case, the empty string and addresses, on either side of the pair.
Words(letters) == {w \in [1..Len(letters) -> UNION {letters[i] : i \in 1..Len(letters)}] :
                     \A i \in 1..Len(letters) : w[i] \in letters[i]}

EthLetters == {"e", "E", "t", "T", "h", "H", "x"}

Tokens ==
  Words(<<EthLetters, EthLetters, EthLetters>>)
    \cup Words(<<{"s", "S", "x"}, {"t", "T", "r"}, {"r", "R", "t"}, {"k", "K"}>>)
    \cup {<<>>, <<"0", "x", "1">>, ETH_ADDRESS, <<"e", "t", "h", "s">>, <<"w", "e", "t", "h">>}

SwapMenu ==
  {SwapInvocation(t, <<"0", "x", "1">>, "1") : t \in Tokens}
    \cup {SwapInvocation(<<"0", "x", "1">>, t, "1") : t \in Tokens}
    \cup {SwapInvocation(<<"e", "t", "h">>, <<"s", "t", "r", "k">>, "1"),
          SwapInvocation(<<"S", "T", "R", "K">>, <<"E", "T", "H">>, "1")}

InitSwap ==
  /\ InitState
  /\ env = [address |-> FALSE, privateKey |-> FALSE]
  /\ Stored(OldStorage, 1, {1})
  /\ limits = [Limits(SwapTurns, SwapCalls, SwapMenu) EXCEPT !.chats = {1}]

NextSwap ==
  \/ UserMessage
  \/ CallModel
  \/ ToolsReturn
  \/ SwapGetAccount
  \/ SwapQuote
  \/ SwapExecute

SpecSwap == InitSwap /\ [][NextSwap]_vars

\* One transfer of a chat that has a deployed account, for the amounts 0.00 to 2.99 in
\* hundredths, one wei, and an amount with nineteen decimal places.
OneWei == Decimal(<<0>>, <<0, 0, 0, 0, 0, 0, 0, 0, 0, 0, 0, 0, 0, 0, 0, 0, 0, 1>>)

LongAmount == Decimal(<<1>>, <<1, 2, 3, 4, 5, 6, 7, 8, 9, 1, 2, 3, 4, 5, 6, 7, 8, 9, 1>>)

Amounts ==
  {OneWei, LongAmount} \cup {Decimal(<<i>>, <<a, b>>) : i \in 0..2, a \in 0..9, b \in 0..9}

SendMenu == {SendInvocation("0xb0b", amount) : amount \in Amounts}

InitSend ==
  /\ InitState
  /\ env = [address |-> FALSE, privateKey |-> FALSE]
  /\ Stored(OldStorage, 1, {1})
  /\ limits = [Limits(SendTurns, SendCalls, SendMenu) EXCEPT !.chats = {1}]

NextSend ==
  \/ UserMessage
  \/ CallModel
  \/ ToolsReturn
  \/ SendGetAccount
  \/ SendExecute

SpecSend == InitSend /\ [][NextSend]_vars

\* ------------------------------------------------------------- scheduler claims
\* C1: for every chat at most one timer is live, and when no start handler of the chat
\* is suspended at its await the live timer is the one backgroundActionIntervals records.
\* (Stated at the states between handlers, where the claim is weakest; the code breaks it.)
C1_OneLiveTimerRecorded ==
  \A chat \in Sessions :
    /\ Cardinality(LiveTimers(chat)) <= 1
    /\ ~StartSuspended(chat) =>
         \A k \in LiveTimers(chat) : backgroundActionIntervals[chat] = k

\* C2: when the start calls of a chat follow one another, then after a start call has
\* returned (and until the next scheduler call begins) exactly one timer of the chat is
\* live: the one that call created, recorded for the chat, with that call's description
\* and interval. Every earlier timer of the chat is cleared, so it never fires again.
C2_LastStartOwnsTheOnlyTimer ==
  \A chat \in Sessions :
    lastStart[chat] # None =>
      /\ LiveTimers(chat) = {lastStart[chat].timer}
      /\ backgroundActionIntervals[chat] = lastStart[chat].timer
      /\ timers[lastStart[chat].timer].what = lastStart[chat].what
      /\ timers[lastStart[chat].timer].ms = lastStart[chat].secs * 1000

\* Two start calls with different arguments have returned one after the other for a
\* chat: the first timer is cleared, the second is live.
C2_Witness ==
  \E chat \in Sessions :
    /\ lastStart[chat] # None
    /\ lastStart[chat].timer = 2
    /\ timers[1].chat = chat /\ timers[2].chat = chat
    /\ timers[1].what # timers[2].what
    /\ ~timers[1].live /\ timers[2].live

StopReturns(p) ==
  /\ Running(p, "stop_background_action", "ready")
  /\ turns'[p[1]].calls[p[2]].pc = "done"

\* C3: a stop call returns "Stopped." and never raises; on a chat with no live timer
\* (which then has no recorded timer either) it changes neither the map nor any timer;
\* it always leaves the chat without a recorded timer, so a second stop changes nothing.
C3_StopWithoutTimerIsNoOp ==
  [][\A p \in TurnCalls :
       StopReturns(p) =>
         LET chat == turns[p[1]].chat
         IN /\ turns'[p[1]].calls[p[2]].text = "Stopped."
            /\ ~turns'[p[1]].calls[p[2]].raised
            /\ backgroundActionIntervals'[chat] = 0
            /\ LiveTimers(chat) = {} => backgroundActionIntervals[chat] = 0
            /\ backgroundActionIntervals[chat] = 0 =>
                 /\ backgroundActionIntervals' = backgroundActionIntervals
                 /\ timers' = timers]_vars

\* Two stop calls in a row have returned on a chat that never had a timer, while the
\* other chat keeps its live timer.
C3_Witness ==
  \E t \in 1..Len(turns) :
    /\ Len(turns[t].calls) = 2
    /\ \A i \in 1..2 :
         /\ turns[t].calls[i].name = "stop_background_action"
         /\ turns[t].calls[i].text = "Stopped."
    /\ LiveTimers(turns[t].chat) = {}
    /\ \A k \in 1..Len(timers) : timers[k].chat # turns[t].chat /\ timers[k].live
    /\ timers # <<>>

TimerTurnBegins(chat) ==
  /\ Len(turns') = Len(turns) + 1
  /\ Last(turns').origin = "timer"
  /\ Last(turns').chat = chat

\* C4: once stop has returned for a chat, no timer-triggered turn begins on it until
\* start is called again.
C4_NoFiringAfterStop ==
  [][\A chat \in Sessions : stopped[chat] => ~TimerTurnBegins(chat)]_vars

\* ------------------------------------------------------------- dialogue claims
\* C5: a turn starts in agent; an agent step leads to tools exactly when the message it
\* appended carries a tool call and ends the turn otherwise; the return of the tools
\* node leads to agent; nothing else moves a turn, and an ended turn stays as it is.
C5_GraphTransitions ==
  [][\A t \in 1..Len(turns') :
       IF t > Len(turns)
       THEN turns'[t].node = "agent"
       ELSE LET a == turns[t].node
                b == turns'[t].node
                m == Last(turns'[t].msgs)
                appended == turns'[t].msgs # turns[t].msgs
            IN /\ a = "agent" /\ appended =>
                    /\ m.role = "ai"
                    /\ b = IF Len(m.calls) >= 1 THEN "tools" ELSE "__end__"
               /\ a = "agent" /\ ~appended => b = "agent"
               /\ a = "tools" /\ appended => b = "agent"
               /\ a = "tools" /\ ~appended => b = "tools"
               /\ a = "__end__" => turns'[t] = turns[t]
               /\ b = "__end__" /\ a # "__end__" =>
                    a = "agent" /\ m.role = "ai" /\ m.calls = <<>>]_vars

\* A turn has gone agent, tools, agent and ended.
C5_Witness ==
  \E t \in 1..Len(turns) :
    /\ turns[t].node = "__end__"
    /\ turns[t].rounds = 1
    /\ Last(turns[t].msgs).calls = <<>>

\* C6: when a turn ends, the history stored for its chat ends with an assistant message
\* without tool calls and is longer than the history the turn was invoked on by the
\* request, the messages of its tool rounds (for each round the assistant message and
\* one result per call) and the final assistant message.
C6_TurnGrowsHistory ==
  [][\A t \in 1..Len(turns) :
       turns[t].node # "__end__" /\ turns'[t].node = "__end__" =>
         LET stored == history'[turns[t].chat]
         IN /\ Len(stored) = turns[t].base + 1 + turns'[t].toolMsgs + 1
            /\ Last(stored).role = "ai"
            /\ Last(stored).calls = <<>>]_vars

\* A turn invoked on a chat that already had messages has ended after one tool round of
\* two calls, and the chat's stored history is its five messages longer.
C6_Witness ==
  \E t \in 1..Len(turns) :
    /\ turns[t].node = "__end__"
    /\ turns[t].base > 0
    /\ turns[t].toolMsgs = 3
    /\ Len(history[turns[t].chat]) = turns[t].base + 5

\* The tool calls of the assistant message at position j of h are answered, in order,
\* by the messages that follow it.
Answered(h, j) ==
  \A n \in 1..Len(h[j].calls) :
    /\ j + n <= Len(h)
    /\ h[j + n].role = "tool"
    /\ h[j + n].ref = h[j].calls[n].id

\* C7: in every stored history, a tool result refers to a call of an assistant message
\* before it, no two results refer to the same call, and the calls of every assistant
\* message but a last one, whose tools step is still running, are answered one result
\* each in call order.
C7_ResultsMatchCalls ==
  \A chat \in Sessions :
    LET h == history[chat]
    IN \A j \in 1..Len(h) :
         /\ h[j].role = "tool" =>
              /\ \E i \in 1..(j - 1) :
                   /\ h[i].role = "ai"
                   /\ \E n \in 1..Len(h[i].calls) : h[i].calls[n].id = h[j].ref
              /\ \A k \in 1..Len(h) : h[k].role = "tool" /\ h[k].ref = h[j].ref => k = j
         /\ h[j].role = "ai" /\ j < Len(h) => Answered(h, j)
         /\ h[j].role # "ai" => h[j].calls = <<>>

IsPrefix(a, b) == Len(a) <= Len(b) /\ SubSeq(b, 1, Len(a)) = a

\* C8: the history stored for a chat only grows: what was stored is a prefix of what is
\* stored next.
C8_HistoryAppendOnly ==
  [][\A chat \in Sessions : IsPrefix(history[chat], history'[chat])]_vars

\* Turns i and j of one chat, one begun by a user message and one by a timer, of which
\* one began while the other was in flight.
Raced(i, j) ==
  /\ turns[i].chat = turns[j].chat
  /\ turns[i].origin = "user"
  /\ turns[j].origin = "timer"
  /\ i \in turns[j].met \/ j \in turns[i].met

\* The messages turn t has appended to the history it loaded, its request first.
Appended(t) == SubSeq(turns[t].msgs, turns[t].base + 1, Len(turns[t].msgs))

Holds(h, m) == \E n \in 1..Len(h) : h[n] = m

Outlives(t) ==
  /\ t <= Len(turns)
  /\ turns[t].origin = "timer"
  /\ turns[t].node # "__end__"
  /\ ~timers[turns[t].timer].live

Delivered(t) ==
  t <= Len(turns) /\ turns[t].node = "__end__" /\ turns[t].sentTo = turns[t].chat

\* C17: a step that clears a timer leaves the turns that timer began where they are; a turn
\* of a cleared timer keeps what it has appended, sends its answer to its chat when it
\* ends, and, the model and the handlers answering, does end.
C17_StartedTurnOutlivesItsTimer ==
  /\ [][\A t \in 1..Len(turns) :
          turns[t].origin = "timer" /\ ~timers'[turns[t].timer].live =>
            /\ timers[turns[t].timer].live =>
                 turns'[t].node = turns[t].node /\ turns'[t].msgs = turns[t].msgs
            /\ IsPrefix(turns[t].msgs, turns'[t].msgs)
            /\ turns'[t].node = "__end__" => turns'[t].sentTo = turns[t].chat]_vars
  /\ \A t \in 1..StopTurns : Outlives(t) ~> Delivered(t)

\* The tool called name was answered with text by turn s.
Returned(s, name, text) ==
  \E a, b \in 1..Len(turns[s].msgs) : \E n \in 1..Len(turns[s].msgs[a].calls) :
    /\ turns[s].msgs[a].turn = s
    /\ turns[s].msgs[a].calls[n].name = name
    /\ turns[s].msgs[b].ref = turns[s].msgs[a].calls[n].id
    /\ turns[s].msgs[b].text = text

\* A user turn that began while a timer turn was in flight has stopped the background
\* action and ended; the timer turn wrote the history after it and its answer was sent.
C17_Witness ==
  \E t, s \in 1..Len(turns) :
    /\ turns[t].origin = "timer" /\ turns[s].origin = "user"
    /\ t \in turns[s].met
    /\ turns[s].node = "__end__" /\ Returned(s, "stop_background_action", "Stopped.")
    /\ ~timers[turns[t].timer].live
    /\ Delivered(t)
    /\ history[turns[t].chat] = turns[t].msgs

At(t, node) == t <= Len(turns) /\ turns[t].node = node

\* The last message of turn t is an answer of the model, in this turn, requesting no tool.
ZeroCalls(t) ==
  /\ t <= Len(turns)
  /\ Last(turns[t].msgs).role = "ai"
  /\ Last(turns[t].msgs).turn = t
  /\ Last(turns[t].msgs).calls = <<>>

Acting ==
  {turns'[t].chat : t \in {n \in 1..Len(turns') : n > Len(turns) \/ turns'[n] # turns[n]}}

\* C20: every step is a step of one chat and leaves, for every other chat, the recorded
\* timer, the timers created for it, the stored credentials and the history as they
\* were; a timer belongs to the chat whose call created it and to the chat it is recorded
\* for, begins turns on that chat only, and every answer sent goes to the turn's chat.
C20_SessionsIsolated ==
  /\ [](/\ \A t \in 1..Len(turns) :
            /\ turns[t].origin = "timer" => timers[turns[t].timer].chat = turns[t].chat
            /\ turns[t].sentTo \in {0, turns[t].chat}
        /\ \A p \in TurnCalls :
            turns[p[1]].calls[p[2]].timer # 0 =>
              timers[turns[p[1]].calls[p[2]].timer].chat = turns[p[1]].chat
        /\ \A b \in Sessions :
            backgroundActionIntervals[b] # 0 =>
              timers[backgroundActionIntervals[b]].chat = b)
  /\ [][/\ Cardinality(Acting) = 1
        /\ \A b \in Sessions \ Acting :
            /\ backgroundActionIntervals'[b] = backgroundActionIntervals[b]
            /\ storage'[b] = storage[b]
            /\ history'[b] = history[b]
            /\ \A k \in 1..Len(timers') :
                 timers'[k].chat = b => k <= Len(timers) /\ timers'[k] = timers[k]]_vars

\* One chat has a live timer recorded and a turn of it has ended; a turn of another chat
\* has since generated a key, stored in that chat's slot only.
C20_Witness ==
  \E a, b \in Sessions :
    /\ a # b
    /\ backgroundActionIntervals[b] # 0 /\ timers[backgroundActionIntervals[b]].live
    /\ backgroundActionIntervals[a] = 0
    /\ storage[a].generatedAccountPrivateKey = generated /\ generated > 1
    /\ storage[b].generatedAccountPrivateKey # generated
    /\ \E t, u \in 1..Len(turns) :
         /\ turns[t].chat = a /\ turns[u].chat = b
         /\ Delivered(t) /\ Delivered(u)
         /\ history[a] = turns[t].msgs /\ history[b] = turns[u].msgs

\* ------------------------------------------------------------- tool claims
\* C9: no tool handler throws: a failing collaborator call ends in a returned text.
C9_HandlersNeverRaise ==
  \A p \in TurnCalls : ~turns[p[1]].calls[p[2]].raised

AccountTools == {"generate_starknet_account", "deploy_starknet_account"}

\* C10: while both overrides are set, no step generates or deploys an account or
\* writes to the store, and every generate or deploy call that returns, returns the
\* refusal text.
C10_FixedAccountRefuses ==
  [][env.address /\ env.privateKey =>
       /\ storage' = storage
       /\ generated' = generated
       /\ deployed' = deployed
       /\ \A p \in TurnCalls :
            /\ turns[p[1]].calls[p[2]].name \in AccountTools
            /\ turns[p[1]].calls[p[2]].pc # "done"
            /\ turns'[p[1]].calls[p[2]].pc = "done"
            => /\ turns'[p[1]].calls[p[2]].text = Refusal
               /\ ~turns'[p[1]].calls[p[2]].raised]_vars

\* The tool called name was answered with text in h.
Told(h, name, text) ==
  \E j \in 1..Len(h) : \E n \in 1..Len(h[j].calls) :
    /\ h[j].calls[n].name = name
    /\ j + n <= Len(h)
    /\ h[j + n].text = text

\* Both overrides are set, chat 1 holds a deployed account of its own, and both its
\* generate call and its deploy call were refused.
C10_Witness ==
  /\ env.address /\ env.privateKey
  /\ storage = OldStorage
  /\ Told(history[1], "generate_starknet_account", Refusal)
  /\ Told(history[1], "deploy_starknet_account", Refusal)

\* ------------------------------------------------------------- credential claims
\* The handler of call p moves from position a to position b.
Moves(p, a, b) ==
  /\ turns[p[1]].calls[p[2]].pc = a
  /\ p[2] <= Len(turns'[p[1]].calls)
  /\ turns'[p[1]].calls[p[2]].pc = b

\* C11: a generate call that returns overwrites the chat's generated key with its own, so
\* the stored key is always that of the generate call that returned last; a deploy call
\* reads that key, passes it to deployAccount, deploys no other key and persists that
\* key and its address as deployed.
C11_DeployTakesLastGenerated ==
  [][\A p \in TurnCalls :
       LET c == turns[p[1]].calls[p[2]]
           d == turns'[p[1]].calls[p[2]]
           chat == turns[p[1]].chat
       IN /\ c.name = "generate_starknet_account" /\ Moves(p, "generated", "done") /\ ~d.raised =>
               /\ storage'[chat].generatedAccountPrivateKey = c.key
               /\ lastGenerated'[chat] = c.key
          /\ c.name = "deploy_starknet_account" =>
               /\ Moves(p, "ready", "read") => d.key = lastGenerated[chat]
               /\ Moves(p, "read", "deployed") =>
                    deployed' = deployed \cup {c.key} /\ d.addr = ContractAddress(c.key)
               /\ Moves(p, "deployed", "savedKey") => storage'[chat].privateKey = c.key
               /\ Moves(p, "savedKey", "done") /\ ~d.raised =>
                    storage'[chat].accountAddress = ContractAddress(c.key)
               /\ c.pc \notin {"ready", "done"} => d.key = c.key]_vars

\* Two generate calls have returned for chat 1, one after the other with no deploy in
\* between, and a deploy call that began afterwards has returned: the deployed slot
\* holds the second key and its address, and the first key was never deployed.
C11_Witness ==
  /\ storage = [NoStorage EXCEPT ![1] = [generatedAccountPrivateKey |-> 2, privateKey |-> 2,
                                         accountAddress |-> ContractAddress(2)]]
  /\ deployed = {2}
  /\ Len(turns) = 3
  /\ \A t \in 1..3 : turns[t].node = "__end__"
  /\ Len(history[1]) = 12
  /\ Told(history[1], "deploy_starknet_account", "Account deployed. Address: 102")

\* No handler has thrown so far: every collaborator call has succeeded.
NothingRaised ==
  \A t \in 1..Len(turns) :
    /\ \A i \in 1..Len(turns[t].calls) : ~turns[t].calls[i].raised
    /\ \A j \in 1..Len(turns[t].msgs) : turns[t].msgs[j].text # ToolNodeError

\* C12: a deploy call that returns without raising has read the chat's generated key,
\* deployed it, and leaves the chat's deployed slot holding that key and the address
\* deployAccount returned for it; a deploy call that read an empty generated slot never
\* writes to the store.
C12_DeployPersistsWhatItRead ==
  [][\A p \in TurnCalls :
       LET c == turns[p[1]].calls[p[2]]
           d == turns'[p[1]].calls[p[2]]
           chat == turns[p[1]].chat
       IN c.name = "deploy_starknet_account" =>
            /\ Moves(p, "ready", "read") => d.key = storage[chat].generatedAccountPrivateKey
            /\ Moves(p, "savedKey", "done") /\ ~d.raised /\ NothingRaised =>
                 /\ c.key \in deployed
                 /\ storage'[chat].privateKey = c.key
                 /\ storage'[chat].accountAddress = c.addr
            /\ c.pc # "ready" /\ c.key = 0 /\ p[2] <= Len(turns'[p[1]].calls) /\ d # c =>
                 storage' = storage]_vars

Spells(token, word, capitals) ==
  /\ Len(token) = Len(word)
  /\ \A i \in 1..Len(word) : token[i] \in {word[i], capitals[i]}

Canonical(token) ==
  IF Spells(token, <<"e", "t", "h">>, <<"E", "T", "H">>) THEN ETH_ADDRESS
  ELSE IF Spells(token, <<"s", "t", "r", "k">>, <<"S", "T", "R", "K">>) THEN STRK_ADDRESS
  ELSE token

\* C14: the quote a swap call requests names, for each of its two tokens, the canonical
\* ETH address if the argument spells eth in any letter case, the canonical STRK address
\* if it spells strk in any letter case, and the argument itself otherwise.
C14_QuoteNamesCanonicalTokens ==
  [][\A p \in TurnCalls :
       turns[p[1]].calls[p[2]].name = "swap" /\ Moves(p, "ready", "quote") =>
         /\ Cardinality(requests' \ requests) = 1
         /\ \A r \in requests' \ requests :
              /\ r.kind = "quote"
              /\ r.tokenIn = Canonical(turns[p[1]].calls[p[2]].args.tokenInAddress)
              /\ r.tokenOut = Canonical(turns[p[1]].calls[p[2]].args.tokenOutAddress)
              /\ r.amountIn = turns[p[1]].calls[p[2]].args.amountIn]_vars

\* A swap of "STRK" for "ETH" has requested a quote for the two canonical addresses.
C14_Witness ==
  \E p \in TurnCalls :
    /\ Running(p, "swap", "quote")
    /\ turns[p[1]].calls[p[2]].args.tokenInAddress = <<"S", "T", "R", "K">>
    /\ turns[p[1]].calls[p[2]].args.tokenOutAddress = <<"E", "T", "H">>
    /\ \E r \in requests : r.tokenIn = STRK_ADDRESS /\ r.tokenOut = ETH_ADDRESS

\* The amount scaled by 10^18 in fixed point: the integer digits followed by the first
\* eighteen decimal places (zeros where there are fewer), the further places dropped.
FixedPoint(amount) ==
  DigitsOf(Trim(Rev(amount.int \o
    [i \in 1..18 |-> IF i <= Len(amount.frac) THEN amount.frac[i] ELSE 0])))

\* C15: the transfer a send_eth call submits carries the amount scaled by 10^18 in fixed
\* point and truncated: "0.000000000000000001" gives 1 and "1.1234567891234567891"
\* gives 1123456789123456789.
C15_AmountIsFixedPointFloor ==
  [][\A p \in TurnCalls :
       turns[p[1]].calls[p[2]].name = "send_eth" /\ Moves(p, "ready", "execute") =>
         \A r \in requests' \ requests :
           r.amountInWei = FixedPoint(turns[p[1]].calls[p[2]].args.amountInEth)]_vars

\* A deploy handler of the chat has begun and not returned.
DeployInProgress(chat) ==
  \E p \in TurnCalls :
    /\ turns[p[1]].chat = chat
    /\ turns[p[1]].node = "tools"
    /\ turns[p[1]].calls[p[2]].name = "deploy_starknet_account"
    /\ turns[p[1]].calls[p[2]].pc # "done"

\* C19: whenever no deploy call of a chat is in progress, the key and the address in the
\* chat's deployed slot belong to one deployment: both absent, or the key is deployed and
\* the address is the one deployAccount returns for it. (Stated for the runs in which no
\* collaborator call fails, so that only the interleaving of the handlers can break it.)
C19_DeployedSlotConsistent ==
  \A chat \in Sessions :
    ~DeployInProgress(chat) /\ NothingRaised =>
      \/ storage[chat].privateKey = 0 /\ storage[chat].accountAddress = 0
      \/ /\ storage[chat].privateKey \in deployed
         /\ storage[chat].accountAddress = ContractAddress(storage[chat].privateKey)

====
